---- MODULE Spec2Model ----
(***************************************************************************)
(* A model of tui-dashboard (src/src/lib.rs): the DashboardBuilder and the *)
(* four-step render of a Dashboard into a cell buffer.                     *)
(*                                                                         *)
(* The split primitive and the widgets are ratatui's (the 0.26 line, the   *)
(* first with Flex and Block::bordered, and tui-big-text with a fallible   *)
(* BigTextBuilder::build).  They are modelled at the call sites of lib.rs  *)
(* by the result they give for the constraint shapes lib.rs uses:          *)
(*   - a split works on the area shrunk by its margin (the empty rectangle *)
(*     at the origin when the margin does not fit), keeps every segment    *)
(*     inside that area, serves a Length before a Percentage when both do  *)
(*     not fit, and rounds segment edges half up;                          *)
(*   - a widget writes only the cells it has something to put in; cells of *)
(*     its rectangle that it leaves alone keep what they held.             *)
(*                                                                         *)
(* A String is kept run-length encoded: a sequence of <<char, count>> runs *)
(* stands for the text with each char repeated count times, so that texts  *)
(* of 2^16 characters and more are ordinary values.                        *)
(***************************************************************************)
EXTENDS Integers, Sequences, FiniteSets, TLC

VARIABLES
    builder,          \* DashboardBuilder.0, the Dashboard being accumulated
    lastArg,          \* history: per setter, the argument of its last call
    built,            \* history: build() has consumed the builder
    dash,             \* the Dashboard handed to render (self)
    area,             \* the viewport passed to render
    state,            \* the caller's TableState: selected, offset
    buf,              \* the caller's cell buffer
    pc,               \* position inside the render call
    rects,            \* the rectangles handed to the widgets so far
    handed,           \* the content-derived sizes handed to the split primitive
    emphasized,       \* indices of the rows to_line gave the emphasis style
    overflow_checks,  \* the build: TRUE panics on integer overflow, FALSE wraps
    calls,            \* render calls finished so far for this content
    written,          \* history: the regions written in this call, in order
    wrote,            \* history: per region, the cells it put a symbol in
    prevBuf           \* history: the buffer the previous render call left

vars == <<builder, lastArg, built, dash, area, state, buf, pc, rects, handed,
          emphasized, overflow_checks, calls, written, wrote, prevBuf>>

builderVars == <<builder, lastArg, built>>
renderVars == <<dash, area, state, buf, pc, rects, handed, emphasized,
                overflow_checks, calls, written, wrote, prevBuf>>

-----------------------------------------------------------------------------
(* Bounds of the model *)

MaxRows == 2        \* rendered tables have 0..MaxRows rows
MaxCursor == 2      \* the cursor is none or an index 0..MaxCursor
MaxOffset == 1      \* the TableState offset the caller starts with
MaxCalls == 2       \* consecutive render calls with the same content
BufW == 12          \* the buffer is BufW x BufH cells at the origin
BufH == 14

(* 16-bit unsigned arithmetic *)

U16Max == 65535

Min(a, b) == IF a <= b THEN a ELSE b
Max(a, b) == IF a >= b THEN a ELSE b

\* `n as u16`: truncation modulo 2^16
AsU16(n) == n % (U16Max + 1)

\* a u16 result in a build without overflow checks
WrapU16(n) == n % (U16Max + 1)

\* u16::saturating_sub
SatSub(a, b) == IF a >= b THEN a - b ELSE 0

-----------------------------------------------------------------------------
(* Strings *)

NL == "\n"

\* display width of a char: "W" stands for a double-width char
CharWidth(c) == IF c = "W" THEN 2 ELSE IF c = NL THEN 0 ELSE 1

RECURSIVE CharCount(_)
\* str.chars().count()
CharCount(s) == IF s = <<>> THEN 0 ELSE s[1][2] + CharCount(Tail(s))

RECURSIVE Width(_)
\* Line::width(): the display width of a text without newlines
Width(s) == IF s = <<>> THEN 0 ELSE CharWidth(s[1][1]) * s[1][2] + Width(Tail(s))

RECURSIVE LinesFrom(_, _, _)
LinesFrom(s, cur, out) ==
    IF s = <<>> THEN (IF cur = <<>> THEN out ELSE Append(out, cur))
    ELSE IF s[1][1] = NL
         THEN LinesFrom(Tail(s), <<>>,
                        Append(out, cur) \o [i \in 1..(s[1][2] - 1) |-> <<>>])
         ELSE LinesFrom(Tail(s), Append(cur, s[1]), out)

\* str.lines(): split at newlines, no empty last line
Lines(s) == LinesFrom(s, <<>>, <<>>)

UpperChar(c) ==
    CASE c = "s" -> "S"
      [] c = "q" -> "Q"
      [] c = "a" -> "A"
      [] OTHER -> c

\* str.to_uppercase()
ToUppercase(s) == [i \in 1..Len(s) |-> <<UpperChar(s[i][1]), s[i][2]>>]

\* the text made of the given chars, and the text of n times the char c
Chars(cs) == [i \in 1..Len(cs) |-> <<cs[i], 1>>]
Rep(c, n) == <<<<c, n>>>>

-----------------------------------------------------------------------------
(* Rectangles and the split primitive *)

Rect(x, y, w, h) == [x |-> x, y |-> y, width |-> w, height |-> h]

\* Rect::default()
ZeroRect == Rect(0, 0, 0, 0)

IsEmpty(r) == r.width = 0 \/ r.height = 0

CellsOf(r) == (r.x .. (r.x + r.width - 1)) \X (r.y .. (r.y + r.height - 1))

\* Rect::inner(margin): the default rectangle when the margin does not fit
InnerMargin(r, mh, mv) ==
    IF r.width < 2 * mh \/ r.height < 2 * mv THEN ZeroRect
    ELSE Rect(r.x + mh, r.y + mv, r.width - 2 * mh, r.height - 2 * mv)

\* f64::round of n/100 for n >= 0
Round100(n) == (n + 50) \div 100

\* Segment edges of [Percentage(p1), Percentage(p2)], Flex::Start, over the
\* span [start, start + size): in hundredths of a cell, then rounded.
SplitPctPct(start, size, p1, p2) ==
    LET s1 == Min(size * p1, 100 * size)
        s2 == Min(size * p2, 100 * size - s1)
        a == Round100(100 * start)
        b == Round100(100 * start + s1)
        c == Round100(100 * start + s1 + s2)
    IN <<[start |-> a, size |-> b - a], [start |-> b, size |-> c - b]>>

SplitPctLenUnclamped(start, size, p, len) ==
    LET a == Round100(100 * start)
        b == Round100(100 * start + size * p)
        c == Round100(100 * start + size * p + 100 * len)
    IN <<[start |-> a, size |-> b - a], [start |-> b, size |-> c - b]>>

\* Segment edges of [Percentage(p), Length(len)], Flex::Start: the Length is
\* the stronger constraint, and every edge stays inside the span.
SplitPctLen(start, size, p, len) ==
    LET s2 == Min(100 * len, 100 * size)
        s1 == Min(size * p, 100 * size - s2)
        a == Round100(100 * start)
        b == Round100(100 * start + s1)
        c == Round100(100 * start + s1 + s2)
    IN <<[start |-> a, size |-> b - a], [start |-> b, size |-> c - b]>>

\* The segment of [Length(len)], Flex::Center: equal spacers on both sides.
SplitCenterLen(start, size, len) ==
    LET s == Min(100 * len, 100 * size)
        gap == (100 * size - s) \div 2
        a == Round100(100 * start + gap)
        b == Round100(100 * start + gap + s)
    IN [start |-> a, size |-> b - a]

\* a vertical segment of r
VSeg(r, seg) == Rect(r.x, seg.start, r.width, seg.size)
\* a horizontal segment of r
HSeg(r, seg) == Rect(seg.start, r.y, seg.size, r.height)

-----------------------------------------------------------------------------
(* Dashboard, TableItem and the builder *)

\* Option<Block>: None, or a Block with or without borders
NoBlock == [some |-> FALSE, borders |-> FALSE]
SomeBlock(b) == [some |-> TRUE, borders |-> b]

\* Dashboard::default()
DefaultDashboard ==
    [general_title |-> <<>>, subtitle |-> <<>>, avatar |-> <<>>,
     avatar_block |-> NoBlock, table |-> <<>>, table_block |-> NoBlock,
     footer |-> <<>>]

TableItemSwapped(i) == [left |-> i[2], right |-> i[1]]

\* TableItem::new((i.0, i.1))
TableItemNew(i) == [left |-> i[1], right |-> i[2]]

\* table.into_iter().map(|i| i.into()).collect()
CollectItems(t) == [k \in 1..Len(t) |-> TableItemNew(t[k])]

\* footer.into_iter().map(|i| i.into()).collect()
CollectStrings(f) == [k \in 1..Len(f) |-> f[k]]

Unset(dflt) == [set |-> FALSE, arg |-> dflt]
SetTo(a) == [set |-> TRUE, arg |-> a]

NoArgs ==
    [general_title |-> Unset(<<>>), subtitle |-> Unset(<<>>),
     avatar |-> Unset(<<>>), avatar_block |-> Unset(NoBlock),
     table |-> Unset(<<>>), table_block |-> Unset(NoBlock),
     footer |-> Unset(<<>>)]

(* What the setters are called with *)

LongTitle == Rep("x", 16384)
LongSubtitle == Rep("y", 65536)
WideAvatar == Rep("W", 32768)
\* three lines of widths 1, 5, 5
TallAvatar == <<<<"a", 1>>, <<NL, 1>>, <<"a", 5>>, <<NL, 1>>, <<"a", 5>>>>
\* two lines of widths 5 and 8, with a final newline
TwoLineAvatar == <<<<"a", 5>>, <<NL, 1>>, <<"W", 2>>, <<"a", 4>>, <<NL, 1>>>>

Titles == {<<>>, Chars(<<"O", "K">>), LongTitle}
Subtitles == {Chars(<<"v", "1">>), LongSubtitle}
Avatars == {<<>>, TallAvatar, TwoLineAvatar, WideAvatar}
Blocks == {NoBlock, SomeBlock(FALSE)}
Start == <<Chars(<<"s", "t", "a", "r", "t">>), Chars(<<"s">>)>>
Quit == <<Chars(<<"q", "u", "i", "t">>), Chars(<<"q">>)>>
About == <<Chars(<<"a", "b", "o", "u", "t">>), Chars(<<"a">>)>>
Pairs == {Start, Quit}
RowPool == <<Start, Quit, About, Start>>
PairSeqs == UNION {[1..n -> Pairs] : n \in 0..MaxRows}
Bye == Chars(<<"b", "y", "e">>)
PressQ == Chars(<<"p", "r", "e", "s", "s", " ", "q">>)
Footers == {<<>>, <<PressQ, Bye>>}

GeneralTitle(a) ==
    /\ ~built
    /\ builder' = [builder EXCEPT !.general_title = a]
    /\ lastArg' = [lastArg EXCEPT !.general_title = SetTo(a)]
    /\ UNCHANGED <<built, renderVars>>

Subtitle(a) ==
    /\ ~built
    /\ builder' = [builder EXCEPT !.subtitle = a]
    /\ lastArg' = [lastArg EXCEPT !.subtitle = SetTo(a)]
    /\ UNCHANGED <<built, renderVars>>

Avatar(a) ==
    /\ ~built
    /\ builder' = [builder EXCEPT !.avatar = a]
    /\ lastArg' = [lastArg EXCEPT !.avatar = SetTo(a)]
    /\ UNCHANGED <<built, renderVars>>

AvatarBlock(a) ==
    /\ ~built
    /\ builder' = [builder EXCEPT !.avatar_block = a]
    /\ lastArg' = [lastArg EXCEPT !.avatar_block = SetTo(a)]
    /\ UNCHANGED <<built, renderVars>>

Table(a) ==
    /\ ~built
    /\ builder' = [builder EXCEPT !.table = CollectItems(a)]
    /\ lastArg' = [lastArg EXCEPT !.table = SetTo(a)]
    /\ UNCHANGED <<built, renderVars>>

TableBlock(a) ==
    /\ ~built
    /\ builder' = [builder EXCEPT !.table_block = a]
    /\ lastArg' = [lastArg EXCEPT !.table_block = SetTo(a)]
    /\ UNCHANGED <<built, renderVars>>

Footer(a) ==
    /\ ~built
    /\ builder' = [builder EXCEPT !.footer = CollectStrings(a)]
    /\ lastArg' = [lastArg EXCEPT !.footer = SetTo(a)]
    /\ UNCHANGED <<built, renderVars>>

Build ==
    /\ ~built
    /\ built' = TRUE
    /\ dash' = builder
    /\ UNCHANGED <<builder, lastArg, area, state, buf, pc, rects, handed,
                   emphasized, overflow_checks, calls, written, wrote, prevBuf>>

-----------------------------------------------------------------------------
(* The cell buffer and the widgets *)

BufArea == Rect(0, 0, BufW, BufH)
BufCells == CellsOf(BufArea)

\* a cell: the widget whose symbol it holds (w), what of that widget (what:
\* a border, the text of row or line idx, with the emphasis style, with the
\* highlight symbol), and the widget whose style it last took (sty)
Cell(w, what, idx, emph, mark) ==
    [w |-> w, what |-> what, idx |-> idx, emph |-> emph, mark |-> mark,
     sty |-> w]

BlankCell == [Cell("none", "blank", 0, FALSE, FALSE) EXCEPT !.sty = "none"]

\* a buffer holds its cells row by row: b[y][x]
Xs == 0..(BufW - 1)
Ys == 0..(BufH - 1)
At(b, c) == b[c[2]][c[1]]

\* a freshly cleared buffer
EmptyBuf == [y \in Ys |-> [x \in Xs |-> BlankCell]]

\* Buffer::set_style(area, style)
SetStyle(b, cells, s) ==
    [y \in Ys |-> [x \in Xs |->
        IF <<x, y>> \in cells THEN [b[y][x] EXCEPT !.sty = s] ELSE b[y][x]]]

\* symbols written with their style
SetSym(b, cells, cell) ==
    [y \in Ys |-> [x \in Xs |->
        IF <<x, y>> \in cells THEN cell ELSE b[y][x]]]

\* self.*_block.clone().unwrap_or(Block::bordered())
BlockOr(opt) == IF opt.some THEN opt ELSE SomeBlock(TRUE)

\* Block::inner(area)
BlockInner(bl, r) ==
    IF bl.borders
    THEN Rect(Min(r.x + 1, r.x + r.width), Min(r.y + 1, r.y + r.height),
              SatSub(SatSub(r.width, 1), 1), SatSub(SatSub(r.height, 1), 1))
    ELSE r

\* the cells Block::render draws a border symbol in
BorderCells(bl, r) ==
    IF ~bl.borders \/ IsEmpty(r) THEN {}
    ELSE {c \in CellsOf(r) :
            \/ c[1] = r.x \/ c[1] = r.x + r.width - 1
            \/ c[2] = r.y \/ c[2] = r.y + r.height - 1}

\* BigText of one line at PixelSize::Quadrant: a glyph of 4 x 4 cells for
\* each char, cut at the rectangle
BigTextRender(b, r, text) ==
    LET cells == {c \in CellsOf(r) :
                    /\ c[1] - r.x < 4 * CharCount(text)
                    /\ c[2] - r.y < 4}
    IN SetSym(b, cells, Cell("title", "glyph", 0, FALSE, FALSE))

\* Line::render: the style on the whole rectangle, the text on its first row
LineRender(b, r, text) ==
    LET cells == {c \in CellsOf(r) :
                    /\ c[2] = r.y
                    /\ c[1] - r.x < Min(r.width, Width(text))}
    IN SetSym(SetStyle(b, CellsOf(r), "subtitle"), cells,
              Cell("subtitle", "text", 0, FALSE, FALSE))

RECURSIVE FillRows(_, _, _, _)
\* get_row_bounds, first loop: rows of height 1 from the offset on
FillRows(end, height, n, max_height) ==
    IF end < n /\ height + 1 <= max_height
    THEN FillRows(end + 1, height + 1, n, max_height)
    ELSE [end |-> end, height |-> height]

RECURSIVE ScrollDown(_, _, _, _, _)
\* get_row_bounds: while selected >= end
ScrollDown(start, end, height, selected, max_height) ==
    IF selected >= end
    THEN LET drop == SatSub(height + 1, max_height)
         IN ScrollDown(start + drop, end + 1, height + 1 - drop, selected,
                       max_height)
    ELSE [start |-> start, end |-> end, height |-> height]

RECURSIVE ScrollUp(_, _, _, _, _)
\* get_row_bounds: while selected < start
ScrollUp(start, end, height, selected, max_height) ==
    IF selected < start
    THEN LET drop == SatSub(height + 1, max_height)
         IN ScrollUp(start - 1, end - drop, height + 1 - drop, selected,
                     max_height)
    ELSE [start |-> start, end |-> end, height |-> height]

\* Table::get_row_bounds for n >= 1 rows of height 1: the window of rows
\* drawn, start inclusive, end exclusive, counted from 0
GetRowBounds(n, selected, offset, max_height) ==
    LET off == Min(offset, SatSub(n, 1))
        f == FillRows(off, 0, n, max_height)
        sel == Min(IF selected.some THEN selected.idx ELSE 0, n - 1)
        d == ScrollDown(off, f.end, f.height, sel, max_height)
        u == ScrollUp(d.start, d.end, d.height, sel, max_height)
    IN [start |-> u.start, end |-> u.end]

ToLineFromOne(idx, a, st) ==
    [emph |-> st.selected.some /\ st.selected.idx = idx + 1,
     spans |-> <<a.left, ToUppercase(a.right)>>]

\* the closure to_line: the emphasis style goes to the row the cursor is on
ToLine(idx, a, st) ==
    [emph |-> st.selected.some /\ st.selected.idx = idx,
     spans |-> <<a.left, ToUppercase(a.right)>>]

\* self.table.iter().enumerate().map(to_line), indices from 0
TableLines(table, st) == [k \in 1..Len(table) |-> ToLine(k - 1, table[k], st)]

\* Table::render_rows: the rows of the window, one per line of the inner
\* rectangle, the highlight symbol on the selected one
RowsRender(b, inner, lines, st, win) ==
    LET RowOf(c) == win.start + (c[2] - inner.y)
        rowCells == {c \in CellsOf(inner) : RowOf(c) < win.end}
        marked(i) == st.selected.some /\ st.selected.idx = i
    IN [y \in Ys |-> [x \in Xs |->
          IF <<x, y>> \in rowCells
          THEN Cell("table", "row", RowOf(<<x, y>>),
                    lines[RowOf(<<x, y>>) + 1].emph, marked(RowOf(<<x, y>>)))
          ELSE b[y][x]]]

\* a Table that moves a cursor past the last row onto the last row
TableRenderClamping(b, r, lines, block, st) ==
    LET b1 == SetStyle(b, CellsOf(r), "table")
        b2 == SetSym(b1, BorderCells(block, r),
                     Cell("table", "border", 0, FALSE, FALSE))
        inner == BlockInner(block, r)
        last == SatSub(Len(lines), 1)
        st1 == IF st.selected.some /\ st.selected.idx >= Len(lines)
               THEN [st EXCEPT !.selected = [some |-> TRUE, idx |-> last]]
               ELSE st
        win == GetRowBounds(Len(lines), st1.selected, st1.offset, inner.height)
    IN IF IsEmpty(inner)
       THEN [buf |-> b2, state |-> st]
       ELSE IF Len(lines) = 0
       THEN [buf |-> b2, state |-> st1]
       ELSE [buf |-> RowsRender(b2, inner, lines, st1, win),
             state |-> [st1 EXCEPT !.offset = win.start]]

\* StatefulWidget::render of the Table: style, block, then the rows; the
\* offset of the state becomes the first row drawn
TableRender(b, r, lines, block, st) ==
    LET b1 == SetStyle(b, CellsOf(r), "table")
        b2 == SetSym(b1, BorderCells(block, r),
                     Cell("table", "border", 0, FALSE, FALSE))
        inner == BlockInner(block, r)
        win == GetRowBounds(Len(lines), st.selected, st.offset, inner.height)
    IN IF IsEmpty(inner) \/ Len(lines) = 0
       THEN [buf |-> b2, state |-> st]
       ELSE [buf |-> RowsRender(b2, inner, lines, st, win),
             state |-> [st EXCEPT !.offset = win.start]]

\* Paragraph::render with a block, left aligned, default style: the border,
\* then each line that fits on its own row of the inner rectangle
AvatarRender(b, r, lines, block) ==
    LET b1 == SetSym(b, BorderCells(block, r),
                     Cell("avatar", "border", 0, FALSE, FALSE))
        inner == BlockInner(block, r)
        LineOf(c) == c[2] - inner.y + 1
        textCells == {c \in CellsOf(inner) :
                        /\ LineOf(c) <= Len(lines)
                        /\ c[1] - inner.x < Width(lines[LineOf(c)])}
    IN [y \in Ys |-> [x \in Xs |->
          IF <<x, y>> \in textCells
          THEN Cell("avatar", "text", LineOf(<<x, y>>) - 1, FALSE, FALSE)
          ELSE b1[y][x]]]

\* Paragraph::render without block, centered, styled: the style on the
\* whole rectangle, each line centered on its own row
FooterRender(b, r, lines) ==
    LET b1 == SetStyle(b, CellsOf(r), "footer")
        LineOf(c) == c[2] - r.y + 1
        Off(k) == SatSub(r.width, Width(lines[k])) \div 2
        textCells == {c \in CellsOf(r) :
                        /\ LineOf(c) <= Len(lines)
                        /\ c[1] - r.x >= Off(LineOf(c))
                        /\ c[1] - r.x < Off(LineOf(c)) + Width(lines[LineOf(c)])}
    IN [y \in Ys |-> [x \in Xs |->
          IF <<x, y>> \in textCells
          THEN Cell("footer", "text", LineOf(<<x, y>>) - 1, FALSE, FALSE)
          ELSE b1[y][x]]]

-----------------------------------------------------------------------------
(* The render call *)

NoRects ==
    [top_1 |-> ZeroRect, top_2 |-> ZeroRect, title |-> ZeroRect,
     subtitle |-> ZeroRect, table |-> ZeroRect, avatar |-> ZeroRect,
     footer |-> ZeroRect]

NoHanded == [title |-> 0, subtitle |-> 0, table |-> 0, avatar_w |-> 0,
             avatar_h |-> 0]

Regions == {"header", "table", "avatar", "footer"}
NoWrote == [w \in Regions |-> {}]

\* the cells of b holding a symbol of one of the widgets ws
SymCells(b, ws) == {c \in BufCells : At(b, c).w \in ws}

TitleLenTwoColumns(d) == AsU16(CharCount(d.general_title)) * 2

\* self.general_title.chars().count() as u16 * 4, before any overflow
TitleLen(d) == AsU16(CharCount(d.general_title)) * 4

\* self.subtitle.chars().count() as u16
SubtitleLen(d) == AsU16(CharCount(d.subtitle))

TableLenOneBorder(d) == Len(d.table) + 1

\* table_height + 2 after the loop over the lines, before any overflow:
\* the loop adds 1 for each line
TableLen(d) == Len(d.table) + 2

RECURSIVE MaxWidth(_)
\* the loop avatar_width = avatar_width.max(line.width())
MaxWidth(lines) ==
    IF lines = <<>> THEN 0 ELSE Max(Width(lines[1]), MaxWidth(Tail(lines)))

RECURSIVE MaxChars(_)
MaxChars(lines) ==
    IF lines = <<>> THEN 0
    ELSE Max(CharCount(lines[1]), MaxChars(Tail(lines)))

AvatarWidthInChars(d) == AsU16(MaxChars(Lines(d.avatar)))

\* avatar_width as u16
AvatarWidth(d) == AsU16(MaxWidth(Lines(d.avatar)))

\* avatar_height as u16
AvatarHeight(d) == AsU16(Len(Lines(d.avatar)))

StepAfterAvatarFirst(p) ==
    CASE p = "header" -> "avatar"
      [] p = "avatar" -> "table"
      [] p = "table" -> "footer"
      [] p = "footer" -> "done"

\* the order of the four calls in render
StepAfter(p) ==
    CASE p = "header" -> "table"
      [] p = "table" -> "avatar"
      [] p = "avatar" -> "footer"
      [] p = "footer" -> "done"

Panic ==
    /\ pc' = "panicked"
    /\ UNCHANGED <<builderVars, dash, area, state, buf, rects, handed,
                   emphasized, overflow_checks, calls, written, wrote, prevBuf>>

RenderHeader ==
    /\ pc = "header"
    /\ LET inner == InnerMargin(area, 0, 1)
           v == SplitPctPct(inner.y, inner.height, 10, 5)
           top_1 == VSeg(inner, v[1])
           top_2 == VSeg(inner, v[2])
           tlen == TitleLen(dash)
           slen == SubtitleLen(dash)
           top_center_1 ==
               HSeg(top_1, SplitCenterLen(top_1.x, top_1.width, WrapU16(tlen)))
           top_center_2 ==
               HSeg(top_2, SplitCenterLen(top_2.x, top_2.width, slen))
           b1 == BigTextRender(buf, top_center_1, dash.general_title)
           b2 == LineRender(b1, top_center_2, dash.subtitle)
       IN IF tlen > U16Max /\ overflow_checks
          THEN Panic
          ELSE /\ buf' = b2
               /\ rects' = [rects EXCEPT !.top_1 = top_1, !.top_2 = top_2,
                                         !.title = top_center_1,
                                         !.subtitle = top_center_2]
               /\ handed' = [handed EXCEPT !.title = WrapU16(tlen),
                                           !.subtitle = slen]
               /\ written' = Append(written, "header")
               /\ wrote' = [wrote EXCEPT
                              !.header = SymCells(buf', {"title", "subtitle"})]
               /\ pc' = StepAfter(pc)
               /\ UNCHANGED <<builderVars, dash, area, state, emphasized,
                              overflow_checks, calls, prevBuf>>

RenderTable ==
    /\ pc = "table"
    /\ LET inner == InnerMargin(area, 3, 0)
           h == SplitPctPct(inner.x, inner.width, 36, 57)
           main == HSeg(inner, h[2])
           lines == TableLines(dash.table, state)
           tlen == TableLen(dash)
           v == SplitPctLen(main.y, main.height, 20, WrapU16(tlen))
           region == VSeg(main, v[2])
           r == TableRender(buf, region, lines, BlockOr(dash.table_block), state)
       IN IF tlen > U16Max /\ overflow_checks
          THEN Panic
          ELSE /\ buf' = r.buf
               /\ state' = r.state
               /\ rects' = [rects EXCEPT !.table = region]
               /\ handed' = [handed EXCEPT !.table = WrapU16(tlen)]
               /\ emphasized' = {k - 1 : k \in {j \in 1..Len(lines) : lines[j].emph}}
               /\ written' = Append(written, "table")
               /\ wrote' = [wrote EXCEPT !.table = SymCells(buf', {"table"})]
               /\ pc' = StepAfter(pc)
               /\ UNCHANGED <<builderVars, dash, area, overflow_checks, calls,
                              prevBuf>>

RenderAvatar ==
    /\ pc = "avatar"
    /\ LET lines == Lines(dash.avatar)
           h == SplitPctLen(area.x, area.width, 8, AvatarWidth(dash))
           left == HSeg(area, h[2])
           v == SplitPctLen(left.y, left.height, 20, AvatarHeight(dash))
           region == VSeg(left, v[2])
           b1 == AvatarRender(buf, region, lines, BlockOr(dash.avatar_block))
       IN /\ buf' = b1
          /\ rects' = [rects EXCEPT !.avatar = region]
          /\ handed' = [handed EXCEPT !.avatar_w = AvatarWidth(dash),
                                      !.avatar_h = AvatarHeight(dash)]
          /\ written' = Append(written, "avatar")
          /\ wrote' = [wrote EXCEPT !.avatar = SymCells(buf', {"avatar"})]
          /\ pc' = StepAfter(pc)
          /\ UNCHANGED <<builderVars, dash, area, state, emphasized,
                         overflow_checks, calls, prevBuf>>

RenderFooter ==
    /\ pc = "footer"
    /\ LET inner == InnerMargin(area, 0, 1)
           v == SplitPctPct(inner.y, inner.height, 95, 5)
           bottom == VSeg(inner, v[2])
           b1 == FooterRender(buf, bottom, dash.footer)
       IN /\ buf' = b1
          /\ rects' = [rects EXCEPT !.footer = bottom]
          /\ written' = Append(written, "footer")
          /\ wrote' = [wrote EXCEPT !.footer = SymCells(buf', {"footer"})]
          /\ pc' = StepAfter(pc)
          /\ calls' = calls + 1
          /\ UNCHANGED <<builderVars, dash, area, state, handed, emphasized,
                         overflow_checks, prevBuf>>

\* the caller renders the next frame: the same content, viewport and
\* TableState, onto a freshly cleared buffer
RenderAgain ==
    /\ pc = "done"
    /\ calls < MaxCalls
    /\ prevBuf' = buf
    /\ buf' = EmptyBuf
    /\ pc' = "header"
    /\ rects' = NoRects
    /\ handed' = NoHanded
    /\ emphasized' = {}
    /\ written' = <<>>
    /\ wrote' = NoWrote
    /\ UNCHANGED <<builderVars, dash, area, state, overflow_checks, calls>>

(* What render is called with *)

Viewports ==
    {Rect(0, 0, 0, 0), Rect(2, 1, 10, 13), Rect(1, 1, 5, 4),
     Rect(1, 1, 8, 1), Rect(0, 0, BufW, 3)}

NoneSelected == [some |-> FALSE, idx |-> 0]
Selected(i) == [some |-> TRUE, idx |-> i]
Cursors == {NoneSelected} \cup {Selected(i) : i \in 0..MaxCursor}
\* TableState::default() with a cursor, or scrolled without one
TableStates ==
    {[selected |-> c, offset |-> 0] : c \in Cursors}
    \cup {[selected |-> NoneSelected, offset |-> o] : o \in 1..MaxOffset}

RenderedTables == {CollectItems(SubSeq(RowPool, 1, n)) : n \in 0..MaxRows}

Contents ==
    [general_title : Titles, subtitle : Subtitles, avatar : Avatars,
     avatar_block : Blocks, table : RenderedTables, table_block : Blocks,
     footer : Footers]

\* the setter calls that give the Dashboard d
ArgsOf(d) ==
    [general_title |-> SetTo(d.general_title), subtitle |-> SetTo(d.subtitle),
     avatar |-> SetTo(d.avatar), avatar_block |-> SetTo(d.avatar_block),
     table |-> SetTo([k \in 1..Len(d.table) |->
                        <<d.table[k].left, d.table[k].right>>]),
     table_block |-> SetTo(d.table_block), footer |-> SetTo(d.footer)]

-----------------------------------------------------------------------------
(* The specifications *)

\* a size of d overflows 16 bits: only then do the two builds differ
CanOverflow(d) == TitleLen(d) > U16Max \/ TableLen(d) > U16Max

\* a Dashboard, built, enters render with a cleared buffer; the build with
\* overflow checks is followed where it differs from the one without
Init ==
    /\ dash \in Contents
    /\ builder = dash
    /\ lastArg = ArgsOf(dash)
    /\ built = TRUE
    /\ area \in Viewports
    /\ state \in TableStates
    /\ overflow_checks \in BOOLEAN
    /\ overflow_checks => CanOverflow(dash)
    /\ buf = EmptyBuf
    /\ prevBuf = EmptyBuf
    /\ pc = "header"
    /\ rects = NoRects
    /\ handed = NoHanded
    /\ emphasized = {}
    /\ written = <<>>
    /\ wrote = NoWrote
    /\ calls = 0

Next ==
    \/ RenderHeader
    \/ RenderTable
    \/ RenderAvatar
    \/ RenderFooter
    \/ RenderAgain

Spec == Init /\ [][Next]_vars

\* DashboardBuilder::new(), before any render
InitBuilder ==
    /\ builder = DefaultDashboard
    /\ lastArg = NoArgs
    /\ built = FALSE
    /\ dash = DefaultDashboard
    /\ area = ZeroRect
    /\ state = [selected |-> NoneSelected, offset |-> 0]
    /\ overflow_checks = FALSE
    /\ buf = EmptyBuf
    /\ prevBuf = EmptyBuf
    /\ pc = "idle"
    /\ rects = NoRects
    /\ handed = NoHanded
    /\ emphasized = {}
    /\ written = <<>>
    /\ wrote = NoWrote
    /\ calls = 0

NextBuilder ==
    \/ \E a \in Titles : GeneralTitle(a)
    \/ \E a \in Subtitles : Subtitle(a)
    \/ \E a \in Avatars : Avatar(a)
    \/ \E a \in Blocks : AvatarBlock(a)
    \/ \E a \in PairSeqs : Table(a)
    \/ \E a \in Blocks : TableBlock(a)
    \/ \E a \in Footers : Footer(a)
    \/ Build

SpecBuilder == InitBuilder /\ [][NextBuilder]_vars

-----------------------------------------------------------------------------
(* Properties *)

PastHeader == pc \in {"table", "avatar", "footer", "done"}
PastTable == pc \in {"avatar", "footer", "done"}
PastAvatar == pc \in {"footer", "done"}

RowCells(b) == {c \in BufCells : At(b, c).w = "table" /\ At(b, c).what = "row"}
MarkedRows(b) == {At(b, c).idx : c \in {k \in RowCells(b) : At(b, k).mark}}
EmphRows(b) == {At(b, c).idx : c \in {k \in RowCells(b) : At(b, k).emph}}

\* the row the cursor is on, if it is on one
CursorRow ==
    IF state.selected.some /\ state.selected.idx < Len(dash.table)
    THEN {state.selected.idx} ELSE {}

\* every content-derived size of the Dashboard fits 16 bits
SizesFit ==
    /\ 4 * CharCount(dash.general_title) <= U16Max
    /\ CharCount(dash.subtitle) <= U16Max
    /\ Len(dash.table) + 2 <= U16Max
    /\ MaxWidth(Lines(dash.avatar)) <= U16Max
    /\ Len(Lines(dash.avatar)) <= U16Max

\* C1 as stated (here for contents whose sizes fit 16 bits, in a viewport
\* that is not empty): whatever the viewport, the rectangle handed to the
\* table widget is n + 2 rows high for a table of n rows.
C1_HeightIsRowsPlusTwo ==
    (PastTable /\ SizesFit /\ ~IsEmpty(area)) => rects.table.height = Len(dash.table) + 2

\* C1, amended: the rectangle handed to the table widget is n + 2 rows high
\* (n + 2 in 16 bits) where the viewport has that many rows, as high as the
\* viewport where it has fewer, and empty in a viewport narrower than the two
\* margins of 3; an empty table gets no row and no highlight.
C1_HeightIsRowsPlusTwoClipped ==
    PastTable =>
        /\ rects.table.height =
             (IF area.width < 6 THEN 0
              ELSE Min((Len(dash.table) + 2) % 65536, area.height))
        /\ Len(dash.table) = 0 => RowCells(buf) = {} /\ emphasized = {}

C1_Witness ==
    /\ pc = "avatar"
    /\ Len(dash.table) = 2
    /\ area.height = 3
    /\ rects.table.height = 3
    /\ RowCells(buf) # {}

\* C2: a cursor on row i < n gives the emphasis style and the highlight
\* symbol to row i and to no other row; a cursor past the last row, or no
\* cursor, gives them to no row.  (The rows are those handed to the table
\* widget; on screen they are the ones of them the widget has room for.)
C2_HighlightIsCursorRow ==
    PastTable =>
        /\ emphasized = CursorRow
        /\ EmphRows(buf) \subseteq CursorRow
        /\ MarkedRows(buf) \subseteq CursorRow
        /\ (pc = "avatar" /\ ~IsEmpty(BlockInner(BlockOr(dash.table_block),
                                                 rects.table)))
             => EmphRows(buf) = CursorRow /\ MarkedRows(buf) = CursorRow

C2_Witness ==
    /\ pc = "avatar"
    /\ Len(dash.table) = 2
    /\ state.selected = Selected(1)
    /\ emphasized = {1}
    /\ MarkedRows(buf) = {1}
    /\ \E c \in RowCells(buf) : At(buf, c).idx = 0 /\ ~At(buf, c).emph

\* C3 as stated (here for contents whose sizes fit 16 bits, in a viewport
\* that is not empty): whatever the viewport, the rectangle handed to the
\* avatar paragraph is as wide as the widest line and as high as the number
\* of lines; an empty text gives an empty rectangle and paints nothing.
C3_AvatarIsBoundingBox ==
    (PastAvatar /\ SizesFit /\ ~IsEmpty(area)) =>
        /\ rects.avatar.width = MaxWidth(Lines(dash.avatar))
        /\ rects.avatar.height = Len(Lines(dash.avatar))
        /\ dash.avatar = <<>> =>
             IsEmpty(rects.avatar) /\ SymCells(buf, {"avatar"}) = {}

\* C3, amended: the rectangle handed to the avatar paragraph is as wide as
\* the widest line (its width taken modulo 2^16) or as the viewport, whichever
\* is less, and as high as the number of lines (modulo 2^16) or as the
\* viewport, whichever is less; two lines of widths 5 and 8 get 8 x 2 where
\* the viewport has the room; an empty text gives an empty rectangle and
\* paints nothing.
C3_AvatarIsBoundingBoxClipped ==
    PastAvatar =>
        /\ rects.avatar.width =
             Min(MaxWidth(Lines(dash.avatar)) % 65536, area.width)
        /\ rects.avatar.height =
             Min(Len(Lines(dash.avatar)) % 65536, area.height)
        /\ (dash.avatar = TwoLineAvatar /\ area.width >= 8 /\ area.height >= 2)
             => rects.avatar.width = 8 /\ rects.avatar.height = 2
        /\ dash.avatar = <<>> =>
             IsEmpty(rects.avatar) /\ SymCells(buf, {"avatar"}) = {}

C3_Witness ==
    /\ pc = "footer"
    /\ dash.avatar = TallAvatar
    /\ area.width = 5
    /\ rects.avatar.width = 5
    /\ rects.avatar.height = 3
    /\ SymCells(buf, {"avatar"}) # {}

\* the gap left of r in its band is the gap right of it, or one cell more
Centered(r, band) ==
    LET l == r.x - band.x
        g == (band.x + band.width) - (r.x + r.width)
    IN /\ r.y = band.y /\ r.height = band.height
       /\ l >= 0 /\ g >= 0 /\ l - g \in {0, 1}

\* C4 as stated (here for contents whose sizes fit 16 bits, in a viewport
\* that is not empty): the rectangle of the title is 4 x (chars of the
\* title) wide, the one of the subtitle (chars of the subtitle) wide, both
\* centered in their bands.
C4_HeaderWidths ==
    (PastHeader /\ SizesFit /\ ~IsEmpty(area)) =>
        /\ rects.title.width = 4 * CharCount(dash.general_title)
        /\ rects.subtitle.width = CharCount(dash.subtitle)
        /\ Centered(rects.title, rects.top_1)
        /\ Centered(rects.subtitle, rects.top_2)

\* C4, amended: the rectangle of the title is as wide as the 16-bit size
\* handed to the split (4 x chars of the title, in 16 bits) or as its band,
\* whichever is less; the one of the subtitle as wide as the chars of the
\* subtitle (in 16 bits) or as its band, whichever is less; both are centered
\* in their bands to within one cell.
C4_HeaderWidthsClipped ==
    PastHeader =>
        /\ rects.title.width =
             Min(((CharCount(dash.general_title) % 65536) * 4) % 65536,
                 rects.top_1.width)
        /\ rects.subtitle.width =
             Min(CharCount(dash.subtitle) % 65536, rects.top_2.width)
        /\ Centered(rects.title, rects.top_1)
        /\ Centered(rects.subtitle, rects.top_2)

C4_Witness ==
    /\ pc = "table"
    /\ CharCount(dash.general_title) = 2
    /\ rects.top_1.width = 5
    /\ rects.title.width = 5

\* C5: a render call never panics, whatever the content, the cursor and the
\* viewport.
C5_NeverPanics == pc # "panicked"

\* C6: every size handed to the split primitive is the mathematical size
\* clamped to 16 bits.
C6_SizesSaturate ==
    /\ PastHeader =>
         /\ handed.title = Min(4 * CharCount(dash.general_title), U16Max)
         /\ handed.subtitle = Min(CharCount(dash.subtitle), U16Max)
    /\ PastTable => handed.table = Min(Len(dash.table) + 2, U16Max)
    /\ PastAvatar =>
         /\ handed.avatar_w = Min(MaxWidth(Lines(dash.avatar)), U16Max)
         /\ handed.avatar_h = Min(Len(Lines(dash.avatar)), U16Max)

\* C7: a second render call with the same content, viewport and TableState
\* onto a cleared buffer leaves the buffer the first call left.
C7_SecondRenderPaintsTheSame ==
    (pc = "done" /\ calls >= 2) => buf = prevBuf

C7_Witness ==
    /\ pc = "done"
    /\ calls = 2
    /\ state.selected.some
    /\ state.offset > 0
    /\ RowCells(buf) # {}

\* C8: every field of the builder, and of the Dashboard build returns, is
\* the argument of the last call of its setter, or its default when the
\* setter was not called; table and footer keep the order of the elements.
C8_FieldsAreLastArguments ==
    /\ builder.general_title = lastArg.general_title.arg
    /\ builder.subtitle = lastArg.subtitle.arg
    /\ builder.avatar = lastArg.avatar.arg
    /\ builder.avatar_block = lastArg.avatar_block.arg
    /\ builder.table_block = lastArg.table_block.arg
    /\ Len(builder.table) = Len(lastArg.table.arg)
    /\ \A k \in 1..Len(builder.table) :
         /\ builder.table[k].left = lastArg.table.arg[k][1]
         /\ builder.table[k].right = lastArg.table.arg[k][2]
    /\ Len(builder.footer) = Len(lastArg.footer.arg)
    /\ \A k \in 1..Len(builder.footer) :
         builder.footer[k] = lastArg.footer.arg[k]
    /\ \A f \in DOMAIN lastArg :
         ~lastArg[f].set => lastArg[f].arg = NoArgs[f].arg
    /\ dash = IF built THEN builder ELSE DefaultDashboard

C8_Witness ==
    /\ built
    /\ lastArg.table.set /\ lastArg.table.arg = <<Quit, Start>>
    /\ dash.table[1].left = Quit[1] /\ dash.table[2].right = Start[2]
    /\ ~lastArg.subtitle.set /\ dash.subtitle = <<>>
    /\ lastArg.general_title.set /\ dash.general_title = LongTitle
    /\ dash.footer = <<PressQ, Bye>>

RenderOrder == <<"header", "table", "avatar", "footer">>
RegionOf(w) == IF w \in {"title", "subtitle"} THEN "header" ELSE w
RegionCells(g) ==
    IF g = "header" THEN CellsOf(rects.title) \cup CellsOf(rects.subtitle)
    ELSE CellsOf(rects[g])

\* C9 as stated (here for contents whose sizes fit 16 bits): the regions are
\* written in the order header, table, avatar, footer, and a cell of two
\* regions holds the content of the later one.
C9_LaterRegionOwnsSharedCells ==
    /\ written = SubSeq(RenderOrder, 1, Len(written))
    /\ (pc = "done" /\ SizesFit) =>
         \A i, j \in 1..4 :
           i < j =>
             \A c \in (RegionCells(RenderOrder[i]) \cap RegionCells(RenderOrder[j]))
                      \cap BufCells :
               RegionOf(At(buf, c).w) = RenderOrder[j]

\* C9, amended: the regions are written in the order header, table, avatar,
\* footer, each after the one before is finished; a cell holds the symbol of
\* the last region in this order that put a symbol in it, so a cell that a
\* later region covers but puts no symbol in keeps the symbol it had.
C9_LastWriterOwnsCell ==
    /\ written = SubSeq(RenderOrder, 1, Len(written))
    /\ pc = "done" =>
         /\ written = RenderOrder
         /\ \A c \in BufCells :
              LET ws == {i \in 1..4 : c \in wrote[RenderOrder[i]]}
              IN IF ws = {} THEN At(buf, c).w = "none"
                 ELSE RegionOf(At(buf, c).w) =
                        RenderOrder[CHOOSE i \in ws : \A j \in ws : j <= i]

C9_Witness ==
    /\ pc = "done"
    /\ \E c \in wrote.table \cap wrote.avatar : At(buf, c).w = "avatar"
    /\ \E c \in (CellsOf(rects.table) \cap CellsOf(rects.avatar)) \ wrote.avatar :
         At(buf, c).w = "table"

\* C10: every rectangle handed to a widget has all its cells in the
\* viewport, and no cell outside the viewport is written.
C10_RectsInsideViewport ==
    /\ \A g \in {"title", "subtitle", "table", "avatar", "footer"} :
         CellsOf(rects[g]) \subseteq CellsOf(area)
    /\ \A c \in BufCells \ CellsOf(area) : At(buf, c) = BlankCell

C10_Witness ==
    /\ pc = "done"
    /\ area = Rect(0, 0, BufW, 3)
    /\ Len(dash.table) = 2
    /\ rects.table = Rect(5, 0, 4, 3)
    /\ CharCount(dash.general_title) = 16384
    /\ rects.title.width = 0

====
